---------------------------- MODULE Spec2Model ----------------------------
(***************************************************************************)
(* A model of the analytics core of the economic-trends dashboard:         *)
(*   - GDPPredictor (models/predictor.py): the per-country linear trend    *)
(*     model registry and its operations;                                  *)
(*   - the process-wide singleton gdp_predictor as app.py's sessions use   *)
(*     it;                                                                 *)
(*   - detect_extremes (src/utils/explanations.py): the per-country        *)
(*     ranking of year-over-year changes.                                  *)
(*                                                                         *)
(* A panel (a pandas DataFrame in the code) is a sequence of rows          *)
(* [country, year, value]; column country_code is carried by the code but  *)
(* read by none of the modelled operations and is left out.  Values are    *)
(* 64-bit floats in the code and exact rationals here: rounding is not     *)
(* modelled.  One unit of value stands for 1e9, so that the breakpoints    *)
(* 1e6, 1e9 and 1e12 of get_model_summary are 1/1000, 1 and 1000 and every *)
(* sum of the regression stays within TLC's integers.  A dict is a         *)
(* function whose DOMAIN is the set of keys.                               *)
(***************************************************************************)
EXTENDS Integers, Sequences, FiniteSets, TLC

VARIABLES
    models,     \* GDPPredictor.models : country -> fitted line
    metrics,    \* GDPPredictor.metrics: country -> r2_score, mae, coefficient, intercept
    df,         \* the panel the caller holds, as fetch_indicator returned it
    last,       \* the last call on the predictor or the API: operation, arguments, outcome
    spc,        \* per session: position in app.py's prediction tab
    sdf,        \* per session: the panel it loaded (df in main)
    sout,       \* per session: what the tab shows (predictions, model summary)
    ex,         \* the call into explanations.py: arguments, position, result
    data_cache, \* the on-disk cache of save_data_cache: cache key -> panel
    st_cache    \* st.cache_data's entries for fetch_data: arguments -> panel

vars == <<models, metrics, df, last, spc, sdf, sout, ex, data_cache, st_cache>>

-----------------------------------------------------------------------------
(* Bounds of the model. *)

\* the most rows a panel holds
MaxRows == 5
\* the most rows of a panel loaded by a dashboard session
MaxSessionRows == 3
\* the largest top_n given to detect_extremes
MaxTopN == 3
\* the most rows of a panel given to generate_explanations
MaxExplainRows == 4
\* the most rows of a panel given to detect_extremes in any order
MaxShuffledRows == 3

\* countries in the order sort_values('country') gives them
CountrySeq == <<"Brazil", "India">>
Countries == {CountrySeq[i] : i \in 1..Len(CountrySeq)}
\* a country no panel holds
Unknown == "Atlantis"
YearSeq == <<2020, 2021, 2022>>
Years == {YearSeq[i] : i \in 1..Len(YearSeq)}
\* the values a trained-on observation takes
Values == {1, 2}
\* the values an observation given to detect_extremes takes
ChangeValues == {-1, 0, 1, 2}
\* the years lists given to predict and predict_with_confidence
YearLists == {<<2023>>, <<2024, 2019>>}
\* the confidence levels given to predict_with_confidence, in percent
Confidences == {90, 95}
\* top_n as given to detect_extremes
TopNs == (-1)..MaxTopN
\* the dashboard sessions that run at the same time
Sessions == {1, 2}
\* the indicator keys given to detect_extremes
IndicatorKeys == {"gdp", "inflation"}

-----------------------------------------------------------------------------
(* Exact rational arithmetic standing for the code's float64 arithmetic. *)

Abs(x) == IF x < 0 THEN -x ELSE x

RECURSIVE GCD(_, _)
GCD(a, b) == IF b = 0 THEN a ELSE GCD(b, a % b)

\* n/d in lowest terms with a positive denominator
Frac(n, d) ==
    LET g == GCD(Abs(n), Abs(d))
        s == IF d < 0 THEN -1 ELSE 1
    IN  [num |-> s * (n \div g), den |-> s * (d \div g)]

Rat(i) == [num |-> i, den |-> 1]
RAdd(a, b) == Frac(a.num * b.den + b.num * a.den, a.den * b.den)
RSub(a, b) == Frac(a.num * b.den - b.num * a.den, a.den * b.den)
RMul(a, b) == Frac(a.num * b.num, a.den * b.den)
RDiv(a, b) == Frac(a.num * b.den, a.den * b.num)
RAbs(a) == [num |-> Abs(a.num), den |-> a.den]
RLess(a, b) == a.num * b.den < b.num * a.den
RLeq(a, b) == a.num * b.den <= b.num * a.den

RECURSIVE RSum(_)
RSum(s) == IF s = <<>> THEN Rat(0) ELSE RAdd(Head(s), RSum(Tail(s)))

RECURSIVE SumSeq(_)
SumSeq(s) == IF s = <<>> THEN 0 ELSE Head(s) + SumSeq(Tail(s))

-----------------------------------------------------------------------------
(* Data frames. *)

Row(c, y, v) == [country |-> c, year |-> y, value |-> v]

Range(s) == {s[i] : i \in 1..Len(s)}

\* df['country'].unique(): the countries in order of first appearance
RECURSIVE Unique(_)
Unique(p) ==
    IF p = <<>> THEN <<>>
    ELSE LET c == Head(p).country
         IN  <<c>> \o Unique(SelectSeq(Tail(p), LAMBDA r : r.country # c))

\* df[df['country'] == country]
OfCountry(p, c) == SelectSeq(p, LAMBDA r : r.country = c)

\* a stable insertion of row r into the rows s sorted by year
RECURSIVE InsertByYear(_, _)
InsertByYear(r, s) ==
    IF s = <<>> THEN <<r>>
    ELSE IF r.year < Head(s).year THEN <<r>> \o s
    ELSE <<Head(s)>> \o InsertByYear(r, Tail(s))

\* sort_values('year'), stable
RECURSIVE SortByYear(_)
SortByYear(p) ==
    IF p = <<>> THEN <<>>
    ELSE InsertByYear(p[Len(p)], SortByYear(SubSeq(p, 1, Len(p) - 1)))

\* country_data['year'].max()
MaxYear(p) == CHOOSE y \in {r.year : r \in Range(p)} :
                  \A r \in Range(p) : r.year <= y

-----------------------------------------------------------------------------
(* The panels given to the operations: what fetch_indicator returns, rows  *)
(* sorted by (country, year), at most one per (country, year), the         *)
(* observations without a value dropped.                                   *)

KeySeq == [i \in 1..(Len(CountrySeq) * Len(YearSeq)) |->
              <<CountrySeq[((i - 1) \div Len(YearSeq)) + 1],
                YearSeq[((i - 1) % Len(YearSeq)) + 1]>>]

\* the rows of the observations f, a function from some places of KeySeq to values
RECURSIVE RowsOf(_, _)
RowsOf(f, i) ==
    IF i > Len(KeySeq) THEN <<>>
    ELSE (IF i \in DOMAIN f THEN <<Row(KeySeq[i][1], KeySeq[i][2], f[i])>>
          ELSE <<>>) \o RowsOf(f, i + 1)

PanelsOver(vals, maxRows) ==
    UNION {{RowsOf(f, 1) : f \in [S -> vals]} :
              S \in {T \in SUBSET (1..Len(KeySeq)) : Cardinality(T) <= maxRows}}

Panels == PanelsOver(Values, MaxRows)

-----------------------------------------------------------------------------
(* sklearn: LinearRegression, r2_score, mean_absolute_error. *)

\* a fit of the level alone: the horizontal line at the mean of y
FitMeanOnly(xs, ys) ==
    [coef |-> Rat(0), intercept |-> Frac(SumSeq(ys), Len(xs))]

\* LinearRegression().fit(X, y) on one feature: least squares on the centred
\* data; when every x is the same the minimum-norm solution has slope 0
Fit(xs, ys) ==
    LET n   == Len(xs)
        sx  == SumSeq(xs)
        sy  == SumSeq(ys)
        sxy == SumSeq([i \in 1..n |-> xs[i] * ys[i]])
        sxx == SumSeq([i \in 1..n |-> xs[i] * xs[i]])
        den == n * sxx - sx * sx
        coef == IF den = 0 THEN Rat(0) ELSE Frac(n * sxy - sx * sy, den)
    IN  [coef |-> coef,
         intercept |-> RSub(Frac(sy, n), RMul(coef, Frac(sx, n)))]

\* model.predict(X) for one x
PredictOne(m, x) == RAdd(RMul(m.coef, Rat(x)), m.intercept)

\* r2_score(y, y_pred): 1 - SS_res/SS_tot; for a constant y, 1 when the
\* prediction is exact and 0 otherwise
R2Score(ys, preds) ==
    LET n    == Len(ys)
        mean == Frac(SumSeq(ys), n)
        res  == RSum([i \in 1..n |->
                        RMul(RSub(Rat(ys[i]), preds[i]), RSub(Rat(ys[i]), preds[i]))])
        tot  == RSum([i \in 1..n |->
                        RMul(RSub(Rat(ys[i]), mean), RSub(Rat(ys[i]), mean))])
    IN  IF tot.num = 0 THEN (IF res.num = 0 THEN Rat(1) ELSE Rat(0))
        ELSE RSub(Rat(1), RDiv(res, tot))

\* mean_absolute_error(y, y_pred)
MeanAbsoluteError(ys, preds) ==
    LET n == Len(ys)
    IN  RDiv(RSum([i \in 1..n |-> RAbs(RSub(Rat(ys[i]), preds[i]))]), Rat(n))

-----------------------------------------------------------------------------
(* GDPPredictor *)

\* the smallest number of observations train fits a line to
MinTrainPoints == 3

\* the body of train's loop for one country: the fitted model and its metrics
TrainCountry(p, c) ==
    LET country_data == SortByYear(OfCountry(p, c))
        X == [i \in 1..Len(country_data) |-> country_data[i].year]
        y == [i \in 1..Len(country_data) |-> country_data[i].value]
        model  == Fit(X, y)
        y_pred == [i \in 1..Len(X) |-> PredictOne(model, X[i])]
    IN  [model   |-> model,
         metrics |-> [r2_score    |-> R2Score(y, y_pred),
                      mae         |-> MeanAbsoluteError(y, y_pred),
                      coefficient |-> model.coef,
                      intercept   |-> model.intercept]]

\* train with "if len(country_data) < 2: continue"
TrainableFromTwo(p) == {c \in Range(Unique(p)) : Len(OfCountry(p, c)) >= 2}

\* the countries train registers: those of the panel with enough observations
Trainable(p) == {c \in Range(Unique(p)) : Len(OfCountry(p, c)) >= MinTrainPoints}

\* train(df): both registries are emptied, then filled from df alone
TrainModels(p) == [c \in Trainable(p) |-> TrainCountry(p, c).model]

\* metrics recorded before the check of the number of observations: also for a
\* country with 2 observations, which gets no model
TrainMetricsFromTwo(p) == [c \in TrainableFromTwo(p) |-> TrainCountry(p, c).metrics]

TrainMetrics(p) == [c \in Trainable(p) |-> TrainCountry(p, c).metrics]

Empty == <<>>

\* predict that returns its rows in ascending order of year
PredictRowsSortedByYear(ms, c, years) ==
    SortByYear([i \in 1..Len(years) |->
        [country |-> c, year |-> years[i], value |-> PredictOne(ms[c], years[i])]])

\* predict(country, years) for a country that has a model: one row per year
\* asked, in the order asked
PredictRows(ms, c, years) ==
    [i \in 1..Len(years) |->
        [country |-> c, year |-> years[i], value |-> PredictOne(ms[c], years[i])]]

\* predict_next_year with last_year = df['year'].max(), the panel's last year
RECURSIVE NextYearRowsPanelMax(_, _, _)
NextYearRowsPanelMax(ms, p, cs) ==
    IF cs = <<>> THEN <<>>
    ELSE (IF Head(cs) \notin DOMAIN ms THEN <<>>
          ELSE PredictRows(ms, Head(cs), <<MaxYear(p) + 1>>))
         \o NextYearRowsPanelMax(ms, p, Tail(cs))

\* predict_next_year's loop over the countries cs of panel p with the models ms
RECURSIVE NextYearRows(_, _, _)
NextYearRows(ms, p, cs) ==
    IF cs = <<>> THEN <<>>
    ELSE (IF Head(cs) \notin DOMAIN ms THEN <<>>
          ELSE PredictRows(ms, Head(cs), <<MaxYear(OfCountry(p, Head(cs))) + 1>>))
         \o NextYearRows(ms, p, Tail(cs))

\* a margin that grows with the confidence asked for
MarginByConfidence(mt, confidence) == RMul(mt.mae, Frac(confidence, 50))

\* the margin predict_with_confidence puts around a prediction
Margin(mt, confidence) == RMul(mt.mae, Rat(2))

\* predict_with_confidence's rows for one country
WithBounds(rows, margin) ==
    [i \in 1..Len(rows) |->
        [country |-> rows[i].country, year |-> rows[i].year, value |-> rows[i].value,
         lower_bound |-> RSub(rows[i].value, margin),
         upper_bound |-> RAdd(rows[i].value, margin)]]

\* predict_with_confidence's loop over the countries cs
RECURSIVE ConfidenceRows(_, _, _, _, _)
ConfidenceRows(ms, mts, cs, years, confidence) ==
    IF cs = <<>> THEN <<>>
    ELSE (IF Head(cs) \notin DOMAIN ms THEN <<>>
          ELSE WithBounds(PredictRows(ms, Head(cs), years),
                          Margin(mts[Head(cs)], confidence)))
         \o ConfidenceRows(ms, mts, Tail(cs), years, confidence)

\* "if not self.models: self.train(df)": the registry the prediction reads
ModelsFor(ms, p) == IF DOMAIN ms = {} THEN TrainModels(p) ELSE ms
MetricsFor(ms, mts, p) == IF DOMAIN ms = {} THEN TrainMetrics(p) ELSE mts

\* 1e6, 1e9 and 1e12 in units of 1e9
E6 == Frac(1, 1000)
E9 == Rat(1)
E12 == Rat(1000)

\* the integer nearest to the rational q >= 0, the even one of two equally near
RoundHalfEven(q) ==
    LET fl == q.num \div q.den
        twice == 2 * (q.num % q.den)
    IN  IF twice < q.den THEN fl
        ELSE IF twice > q.den THEN fl + 1
        ELSE IF fl % 2 = 0 THEN fl ELSE fl + 1

\* f"${q:.2f}{unit}" (decimals = 2) and f"${q:,.0f}" (decimals = 0, no unit): the
\* sign, the digits printed and the unit letter
Shown(q, decimals, unit) ==
    [negative |-> q.num < 0, decimals |-> decimals, unit |-> unit,
     digits |-> RoundHalfEven(RMul(RAbs(q), Rat(10 ^ decimals)))]

\* the whole dollars of an amount below 1e6
Dollars(q) == RMul(q, Rat(10 ^ 9))

\* coef_str: billions from 1e9 on, millions from 1e6 on, whole dollars below
CoefStr(coef) ==
    IF RLeq(E9, RAbs(coef)) THEN Shown(RDiv(coef, E9), 2, "B")
    ELSE IF RLeq(E6, RAbs(coef)) THEN Shown(RDiv(coef, E6), 2, "M")
    ELSE Shown(Dollars(coef), 0, "")

\* mae_str: trillions from 1e12 on, billions from 1e9 on, millions from 1e6 on,
\* whole dollars below
MaeStr(mae) ==
    IF RLeq(E12, RAbs(mae)) THEN Shown(RDiv(mae, E12), 2, "T")
    ELSE IF RLeq(E9, RAbs(mae)) THEN Shown(RDiv(mae, E9), 2, "B")
    ELSE IF RLeq(E6, RAbs(mae)) THEN Shown(RDiv(mae, E6), 2, "M")
    ELSE Shown(Dollars(mae), 0, "")

\* get_model_summary(country): the text's parts
ModelSummary(mts, c) ==
    IF c \notin DOMAIN mts THEN [kind |-> "no_model", country |-> c]
    ELSE [kind |-> "summary", country |-> c,
          trend |-> IF mts[c].coefficient.num > 0 THEN "increasing" ELSE "decreasing",
          coef_str |-> CoefStr(mts[c].coefficient), mae_str |-> MaeStr(mts[c].mae),
          coefficient |-> mts[c].coefficient, intercept |-> mts[c].intercept,
          r2_score |-> mts[c].r2_score, mae |-> mts[c].mae]

\* a call's record: the operation, its arguments, the exception it raised ("" for
\* none), what it returned, and the countries registered when it was made
Call(op, c, years, confidence, raised, result, before) ==
    [op |-> op, country |-> c, years |-> years, confidence |-> confidence,
     raised |-> raised, result |-> result, before |-> before]

\* what a session's prediction tab holds before anything is computed
NothingShown == [metrics |-> <<>>, predictions |-> <<>>, selected |-> "", summary |-> <<>>]

\* a call of detect_extremes: its position, its arguments, the exception it raised
\* ("" for none) and what it returned
Detection(pc, p, key, n, raised, result) ==
    [pc |-> pc, panel |-> p, indicator_key |-> key, top_n |-> n,
     raised |-> raised, result |-> result]

\* no call of detect_extremes
NoCall == Detection("none", <<>>, "", 0, "", <<>>)

-----------------------------------------------------------------------------
(* The predictor and one caller.  The caller holds a panel df and calls    *)
(* the operations on it.  Every operation's effect is a function of the    *)
(* registry, df and the arguments, and the registry changes only by        *)
(* training, so a new panel is loaded only at the start and after a train, *)
(* and an operation starts only on a fresh panel or after a train: every   *)
(* (registry, panel) pair is reached in a state where every operation is   *)
(* enabled.                                                                *)

Init ==
    /\ models = Empty
    /\ metrics = Empty
    /\ df = <<>>
    /\ data_cache = <<>>
    /\ st_cache = <<>>
    /\ last = Call("init", "", <<>>, 0, "", <<>>, {})
    /\ spc = [s \in Sessions |-> "start"]
    /\ sdf = [s \in Sessions |-> <<>>]
    /\ sout = [s \in Sessions |-> NothingShown]
    /\ ex = NoCall

CanCall == last.op \in {"load", "train"}

Load(p) ==
    /\ last.op \in {"init", "train"}
    /\ df' = p
    /\ last' = Call("load", "", <<>>, 0, "", <<>>, {})
    /\ UNCHANGED <<models, metrics, spc, sdf, sout, ex, data_cache, st_cache>>

\* train that keeps the models of the countries it does not fit again
TrainMerging ==
    /\ CanCall
    /\ models' = [c \in DOMAIN models \cup Trainable(df) |->
                    IF c \in Trainable(df) THEN TrainModels(df)[c] ELSE models[c]]
    /\ metrics' = [c \in DOMAIN metrics \cup Trainable(df) |->
                    IF c \in Trainable(df) THEN TrainMetrics(df)[c] ELSE metrics[c]]
    /\ last' = Call("train", "", <<>>, 0, "", metrics', DOMAIN models)
    /\ UNCHANGED <<df, spc, sdf, sout, ex, data_cache, st_cache>>

Train ==
    /\ CanCall
    /\ models' = TrainModels(df)
    /\ metrics' = TrainMetrics(df)
    /\ last' = Call("train", "", <<>>, 0, "", TrainMetrics(df), DOMAIN models)
    /\ UNCHANGED <<df, spc, sdf, sout, ex, data_cache, st_cache>>

\* predict that answers an unknown country with no rows
PredictLenient(c, years) ==
    /\ CanCall
    /\ last' = IF c \notin DOMAIN models
               THEN Call("predict", c, years, 0, "", <<>>, DOMAIN models)
               ELSE Call("predict", c, years, 0, "", PredictRows(models, c, years), DOMAIN models)
    /\ UNCHANGED <<models, metrics, df, spc, sdf, sout, ex, data_cache, st_cache>>

Predict(c, years) ==
    /\ CanCall
    /\ last' = IF c \notin DOMAIN models
               THEN Call("predict", c, years, 0, "ValueError", <<>>, DOMAIN models)
               ELSE Call("predict", c, years, 0, "", PredictRows(models, c, years), DOMAIN models)
    /\ UNCHANGED <<models, metrics, df, spc, sdf, sout, ex, data_cache, st_cache>>

\* predict_next_year that trains on the panel it is given at every call
PredictNextYearRetraining ==
    /\ CanCall
    /\ models' = TrainModels(df)
    /\ metrics' = TrainMetrics(df)
    /\ last' = Call("predict_next_year", "", <<>>, 0, "",
                    NextYearRows(TrainModels(df), df, Unique(df)), DOMAIN models)
    /\ UNCHANGED <<df, spc, sdf, sout, ex, data_cache, st_cache>>

PredictNextYear ==
    /\ CanCall
    /\ models' = ModelsFor(models, df)
    /\ metrics' = MetricsFor(models, metrics, df)
    /\ last' = Call("predict_next_year", "", <<>>, 0, "",
                    NextYearRows(ModelsFor(models, df), df, Unique(df)), DOMAIN models)
    /\ UNCHANGED <<df, spc, sdf, sout, ex, data_cache, st_cache>>

PredictWithConfidence(years, confidence) ==
    /\ CanCall
    /\ models' = ModelsFor(models, df)
    /\ metrics' = MetricsFor(models, metrics, df)
    /\ last' = Call("predict_with_confidence", "", years, confidence, "",
                    ConfidenceRows(ModelsFor(models, df), MetricsFor(models, metrics, df),
                                   Unique(df), years, confidence), DOMAIN models)
    /\ UNCHANGED <<df, spc, sdf, sout, ex, data_cache, st_cache>>

GetModelSummary(c) ==
    /\ CanCall
    /\ last' = Call("get_model_summary", c, <<>>, 0, "", ModelSummary(metrics, c), DOMAIN models)
    /\ UNCHANGED <<models, metrics, df, spc, sdf, sout, ex, data_cache, st_cache>>

Next ==
    \/ \E p \in Panels : Load(p)
    \/ Train
    \/ \E c \in Countries \cup {Unknown}, years \in YearLists : Predict(c, years)
    \/ PredictNextYear
    \/ \E years \in YearLists, confidence \in Confidences :
          PredictWithConfidence(years, confidence)
    \/ \E c \in Countries \cup {Unknown} : GetModelSummary(c)

Spec == Init /\ [][Next]_vars

-----------------------------------------------------------------------------
(* The dashboard: sessions run main() at the same time in one process, and *)
(* all of them call the one module-level gdp_predictor.  A session's step  *)
(* is one call on the predictor.                                           *)

\* the panels a session loads: fetch_data's result, not empty (main stops on an
\* empty one)
SessionPanels == {p \in Panels : Len(p) >= 1 /\ Len(p) <= MaxSessionRows}

InitSessions ==
    /\ models = Empty
    /\ metrics = Empty
    /\ df = <<>>
    /\ data_cache = <<>>
    /\ st_cache = <<>>
    /\ last = Call("init", "", <<>>, 0, "", <<>>, {})
    /\ spc = [s \in Sessions |-> "start"]
    /\ sdf = [s \in Sessions |-> <<>>]
    /\ sout = [s \in Sessions |-> NothingShown]
    /\ ex = NoCall

\* df = fetch_data(indicator_key, selected_country_codes, start_year, end_year)
SessLoad(s, p) ==
    /\ spc[s] = "start"
    /\ sdf' = [sdf EXCEPT ![s] = p]
    /\ spc' = [spc EXCEPT ![s] = "loaded"]
    /\ UNCHANGED <<models, metrics, df, last, sout, ex, data_cache, st_cache>>

\* metrics = gdp_predictor.train(df)
SessTrain(s) ==
    /\ spc[s] = "loaded"
    /\ models' = TrainModels(sdf[s])
    /\ metrics' = TrainMetrics(sdf[s])
    /\ sout' = [sout EXCEPT ![s].metrics = TrainMetrics(sdf[s])]
    /\ spc' = [spc EXCEPT ![s] = "trained"]
    /\ UNCHANGED <<df, last, sdf, ex, data_cache, st_cache>>

\* predictions = gdp_predictor.predict_next_year(df); nothing more is shown when
\* predictions is empty
SessPredict(s) ==
    /\ spc[s] = "trained"
    /\ models' = ModelsFor(models, sdf[s])
    /\ metrics' = MetricsFor(models, metrics, sdf[s])
    /\ LET rows == NextYearRows(ModelsFor(models, sdf[s]), sdf[s], Unique(sdf[s]))
       IN  /\ sout' = [sout EXCEPT ![s].predictions = rows]
           /\ spc' = [spc EXCEPT ![s] = IF rows = <<>> THEN "done" ELSE "predicted"]
    /\ UNCHANGED <<df, last, sdf, ex, data_cache, st_cache>>

\* the country chosen among metrics.keys(), then
\* gdp_predictor.get_model_summary(selected_country_for_details)
SessSummary(s, c) ==
    /\ spc[s] = "predicted"
    /\ c \in DOMAIN sout[s].metrics
    /\ sout' = [sout EXCEPT ![s].selected = c, ![s].summary = ModelSummary(metrics, c)]
    /\ spc' = [spc EXCEPT ![s] = "done"]
    /\ UNCHANGED <<models, metrics, df, last, sdf, ex, data_cache, st_cache>>

\* the selectbox over metrics.keys() has nothing to choose from
SessNoSummary(s) ==
    /\ spc[s] = "predicted"
    /\ DOMAIN sout[s].metrics = {}
    /\ spc' = [spc EXCEPT ![s] = "done"]
    /\ UNCHANGED <<models, metrics, df, last, sdf, sout, ex, data_cache, st_cache>>

NextSessions ==
    \E s \in Sessions :
        \/ \E p \in SessionPanels : SessLoad(s, p)
        \/ SessTrain(s)
        \/ SessPredict(s)
        \/ \E c \in Countries : SessSummary(s, c)
        \/ SessNoSummary(s)

SpecSessions == InitSessions /\ [][NextSessions]_vars

-----------------------------------------------------------------------------
(* The predictor on panels of one country whose values range from 1e9 to   *)
(* beyond 1e12, so that the fitted slope and the error reach every unit of *)
(* get_model_summary.                                                      *)

\* values around 1e9, and values around 1e12
SmallAmounts == {0, 1, 2}
LargeAmounts == {0, 1000, 2000, 4000}

\* the panel of the observations (2000, 100), (2001, 110), (2002, 120)
ExamplePanel == <<Row("Brazil", 2000, 100), Row("Brazil", 2001, 110), Row("Brazil", 2002, 120)>>

\* one country observed in every year, its values all small or all large
AmountPanels ==
    {[i \in 1..Len(YearSeq) |-> Row(CountrySeq[1], YearSeq[i], f[i])] :
        f \in [1..Len(YearSeq) -> SmallAmounts] \cup [1..Len(YearSeq) -> LargeAmounts]}
    \cup {ExamplePanel}

NextAmounts ==
    \/ \E p \in AmountPanels : Load(p)
    \/ Train
    \/ \E c \in Countries \cup {Unknown} : GetModelSummary(c)

SpecAmounts == Init /\ [][NextAmounts]_vars

-----------------------------------------------------------------------------
(* src/utils/explanations.py: detect_extremes.  A percentage change is a   *)
(* float: a number, NaN (no previous observation, or 0/0), or an infinity  *)
(* (a change from 0).  The dict detect_extremes returns is the sequence of *)
(* its items in insertion order.                                           *)

NaN == [kind |-> "nan", q |-> Rat(0)]
PlusInf == [kind |-> "inf", q |-> Rat(0)]
MinusInf == [kind |-> "-inf", q |-> Rat(0)]
Num(q) == [kind |-> "num", q |-> q]

\* (value / previous - 1) * 100 in float arithmetic
PctChange(previous, value) ==
    IF previous = 0
    THEN (IF value = 0 THEN NaN ELSE IF value > 0 THEN PlusInf ELSE MinusInf)
    ELSE Num(Frac((value - previous) * 100, previous))

\* a < b on floats that are not NaN
FloatLess(a, b) ==
    CASE a.kind = "-inf" -> b.kind # "-inf"
      [] a.kind = "inf" -> FALSE
      [] OTHER -> \/ b.kind = "inf"
                  \/ b.kind = "num" /\ RLess(a.q, b.q)

\* the place of country c in the order of the country names
CountryRank(c) == CHOOSE i \in 1..Len(CountrySeq) : CountrySeq[i] = c

RowBefore(a, b) ==
    \/ CountryRank(a.country) < CountryRank(b.country)
    \/ a.country = b.country /\ a.year < b.year

RECURSIVE InsertByCountryYear(_, _)
InsertByCountryYear(r, s) ==
    IF s = <<>> THEN <<r>>
    ELSE IF RowBefore(r, Head(s)) THEN <<r>> \o s
    ELSE <<Head(s)>> \o InsertByCountryYear(r, Tail(s))

\* df.sort_values(['country', 'year']), stable
RECURSIVE SortByCountryYear(_)
SortByCountryYear(p) ==
    IF p = <<>> THEN <<>>
    ELSE InsertByCountryYear(p[Len(p)], SortByCountryYear(SubSeq(p, 1, Len(p) - 1)))

\* _percent_changes without sort_values: the rows are taken in the order given
percent_changesUnsorted(p) ==
    LET before(i) == {j \in 1..(i - 1) : p[j].country = p[i].country}
        prev(i) == CHOOSE j \in before(i) : \A k \in before(i) : k <= j
    IN  [i \in 1..Len(p) |->
            [country |-> p[i].country, year |-> p[i].year, value |-> p[i].value,
             pct_change |-> IF before(i) = {} THEN NaN
                            ELSE PctChange(p[prev(i)].value, p[i].value)]]

\* _percent_changes without groupby('country'): the change is from the row before
\* in the whole sorted frame
percent_changesUngrouped(p) ==
    LET sorted == SortByCountryYear(p)
    IN  [i \in 1..Len(sorted) |->
            [country |-> sorted[i].country, year |-> sorted[i].year,
             value |-> sorted[i].value,
             pct_change |-> IF i = 1 THEN NaN
                            ELSE PctChange(sorted[i - 1].value, sorted[i].value)]]

\* _percent_changes(df): the sorted rows, each with the change from the row before
\* it of the same country, NaN for a country's first row
percent_changes(p) ==
    LET sorted == SortByCountryYear(p)
        before(i) == {j \in 1..(i - 1) : sorted[j].country = sorted[i].country}
        prev(i) == CHOOSE j \in before(i) : \A k \in before(i) : k <= j
    IN  [i \in 1..Len(sorted) |->
            [country |-> sorted[i].country, year |-> sorted[i].year,
             value |-> sorted[i].value,
             pct_change |-> IF before(i) = {} THEN NaN
                            ELSE PctChange(sorted[prev(i)].value, sorted[i].value)]]

\* dropna(subset=['pct_change'])
DropNaN(rows) == SelectSeq(rows, LAMBDA r : r.pct_change.kind # "nan")

FirstRows(rows, n) == SubSeq(rows, 1, IF n < Len(rows) THEN n ELSE Len(rows))

\* an insertion that puts a row before the rows with an equal pct_change
RECURSIVE InsertDescendingTiesLast(_, _)
InsertDescendingTiesLast(r, s) ==
    IF s = <<>> THEN <<r>>
    ELSE IF ~FloatLess(r.pct_change, Head(s).pct_change) THEN <<r>> \o s
    ELSE <<Head(s)>> \o InsertDescendingTiesLast(r, Tail(s))

RECURSIVE InsertDescending(_, _)
InsertDescending(r, s) ==
    IF s = <<>> THEN <<r>>
    ELSE IF FloatLess(Head(s).pct_change, r.pct_change) THEN <<r>> \o s
    ELSE <<Head(s)>> \o InsertDescending(r, Tail(s))

\* the rows by pct_change, largest first, equal ones in their order in rows
RECURSIVE SortDescending(_)
SortDescending(rows) ==
    IF rows = <<>> THEN <<>>
    ELSE InsertDescending(rows[Len(rows)], SortDescending(SubSeq(rows, 1, Len(rows) - 1)))

RECURSIVE InsertAscending(_, _)
InsertAscending(r, s) ==
    IF s = <<>> THEN <<r>>
    ELSE IF FloatLess(r.pct_change, Head(s).pct_change) THEN <<r>> \o s
    ELSE <<Head(s)>> \o InsertAscending(r, Tail(s))

\* the rows by pct_change, smallest first, equal ones in their order in rows
RECURSIVE SortAscending(_)
SortAscending(rows) ==
    IF rows = <<>> THEN <<>>
    ELSE InsertAscending(rows[Len(rows)], SortAscending(SubSeq(rows, 1, Len(rows) - 1)))

\* nlargest that keeps one row more than asked
nlargestOneMore(n, rows) == FirstRows(SortDescending(rows), n + 1)

\* DataFrame.nlargest(n, 'pct_change'), keep='first': no row for n <= 0
nlargest(n, rows) == IF n <= 0 THEN <<>> ELSE FirstRows(SortDescending(rows), n)

\* DataFrame.nsmallest(n, 'pct_change'), keep='first': no row for n <= 0
nsmallest(n, rows) == IF n <= 0 THEN <<>> ELSE FirstRows(SortAscending(rows), n)

\* the dicts detect_extremes builds from the selected rows
Entries(rows) ==
    [i \in 1..Len(rows) |->
        [year |-> rows[i].year, change_pct |-> rows[i].pct_change, value |-> rows[i].value]]

\* detect_extremes' loop over the countries cs of the changes pc_df
RECURSIVE ExtremesOf(_, _, _)
ExtremesOf(pc_df, cs, top_n) ==
    IF cs = <<>> THEN <<>>
    ELSE LET cvalid == DropNaN(OfCountry(pc_df, Head(cs)))
         IN  (IF cvalid = <<>> THEN <<>>
              ELSE <<[country |-> Head(cs),
                      rises |-> Entries(nlargest(top_n, cvalid)),
                      dips |-> Entries(nsmallest(top_n, cvalid))]>>)
             \o ExtremesOf(pc_df, Tail(cs), top_n)

\* detect_extremes(df, indicator_key, top_n)
detect_extremes(p, indicator_key, top_n) ==
    LET pc_df == percent_changes(p)
    IN  ExtremesOf(pc_df, Unique(pc_df), top_n)

\* the panels given to detect_extremes
DetectPanels == PanelsOver(ChangeValues, MaxRows)

InitDetect ==
    /\ models = Empty
    /\ metrics = Empty
    /\ df = <<>>
    /\ data_cache = <<>>
    /\ st_cache = <<>>
    /\ last = Call("init", "", <<>>, 0, "", <<>>, {})
    /\ spc = [s \in Sessions |-> "start"]
    /\ sdf = [s \in Sessions |-> <<>>]
    /\ sout = [s \in Sessions |-> NothingShown]
    /\ ex \in {Detection("call", p, key, n, "", <<>>) :
                 p \in DetectPanels, key \in IndicatorKeys, n \in TopNs}

\* detect_extremes has no check of its arguments and raises nothing
DetectExtremes ==
    /\ ex.pc = "call"
    /\ ex' = [ex EXCEPT !.pc = "done",
                        !.result = detect_extremes(ex.panel, ex.indicator_key, ex.top_n)]
    /\ UNCHANGED <<models, metrics, df, last, spc, sdf, sout, data_cache, st_cache>>

NextDetect == DetectExtremes

SpecDetect == InitDetect /\ [][NextDetect]_vars

-----------------------------------------------------------------------------
(* src/utils/explanations.py: _augment_reason and generate_explanations.   *)
(* A line of the output is the record of the parts its f-string is built   *)
(* from; the numbers are held as f"{x:.2f}" prints them.                   *)

GLOBAL_EVENTS ==
    2001 :> "Dot-com aftermath and 9/11 shocks affecting global growth and risk appetite" @@
    2003 :> "SARS outbreak impacting Asian travel and health indicators" @@
    2008 :> "Global financial crisis peak; credit contraction and demand slump" @@
    2009 :> "Post-crisis recession; lingering unemployment and GDP contraction" @@
    2011 :> "European sovereign debt concerns; uneven recovery" @@
    2014 :> "Oil price collapse impacting energy exporters and inflation" @@
    2015 :> "Chinese market volatility; adjustments in global trade flows" @@
    2016 :> "Brexit referendum uncertainty (mainly UK/EU); global policy shifts" @@
    2020 :> "COVID-19 pandemic shock: mobility restrictions, demand collapse, health system strain" @@
    2021 :> "Initial recovery phase; supply chain bottlenecks and rebound effects" @@
    2022 :> "Energy/commodity price surge and inflation spike (Ukraine conflict)" @@
    2023 :> "Post-pandemic normalization; disinflation trends and recovery consolidation"

INDICATOR_CONTEXT_RULES == <<
    [fragment |-> "gdp",
     mapping |-> 2008 :> "Sharp downturn in output due to financial crisis" @@
                 2020 :> "Historic contraction from pandemic restrictions" @@
                 2022 :> "Commodity price dynamics and uneven recovery"],
    [fragment |-> "inflation",
     mapping |-> 2020 :> "Low inflation amid demand shock" @@
                 2022 :> "Global inflation spike driven by energy & supply chains"],
    [fragment |-> "unemployment",
     mapping |-> 2009 :> "Labor market deterioration post-crisis" @@
                 2020 :> "Sudden spike from lockdowns"],
    [fragment |-> "co2",
     mapping |-> 2020 :> "Temporary emissions drop from reduced mobility & industry"],
    [fragment |-> "energy",
     mapping |-> 2014 :> "Oil price collapse altering energy investment" @@
                 2022 :> "Energy price shock and policy shifts"],
    [fragment |-> "internet",
     mapping |-> 2020 :> "Acceleration in digital adoption under lockdowns"],
    [fragment |-> "health",
     mapping |-> 2020 :> "Healthcare strain and vaccination disruptions"] >>

\* fragment == indicator_key in place of fragment in indicator_key
IsWholeKey(fragment, indicator_key) == fragment = indicator_key

\* fragment in indicator_key, on strings
IsSubstring(fragment, indicator_key) ==
    \E i \in 1..(Len(indicator_key) - Len(fragment) + 1) :
        SubSeq(indicator_key, i, i + Len(fragment) - 1) = fragment

\* _augment_reason's loop over the rules from the k-th on
RECURSIVE RuleReasons(_, _, _)
RuleReasons(indicator_key, year, k) ==
    IF k > Len(INDICATOR_CONTEXT_RULES) THEN <<>>
    ELSE (IF /\ IsSubstring(INDICATOR_CONTEXT_RULES[k].fragment, indicator_key)
             /\ year \in DOMAIN INDICATOR_CONTEXT_RULES[k].mapping
          THEN <<INDICATOR_CONTEXT_RULES[k].mapping[year]>>
          ELSE <<>>) \o RuleReasons(indicator_key, year, k + 1)

\* _augment_reason(indicator_key, year)
augment_reason(indicator_key, year) ==
    (IF year \in DOMAIN GLOBAL_EVENTS THEN <<GLOBAL_EVENTS[year]>> ELSE <<>>)
    \o RuleReasons(indicator_key, year, 1)

\* "; ".join(reasons)
RECURSIVE Join(_)
Join(reasons) ==
    IF Len(reasons) = 0 THEN ""
    ELSE IF Len(reasons) = 1 THEN reasons[1]
    ELSE reasons[1] \o "; " \o Join(Tail(reasons))

\* f"{x:.2f}" of a float: its sign and its hundredths, or inf, -inf
Fixed2(x) ==
    IF x.kind # "num" THEN [kind |-> x.kind, negative |-> FALSE, hundredths |-> 0]
    ELSE [kind |-> "num", negative |-> x.q.num < 0,
          hundredths |-> RoundHalfEven(RMul(RAbs(x.q), Rat(100)))]

\* a line of the output
Line(direction, country, year, change, value, text) ==
    [direction |-> direction, country |-> country, year |-> year,
     change |-> change, value |-> value, text |-> text]

\* a line that is a fixed text
TextLine(text) == Line("text", "", 0, Fixed2(Num(Rat(0))), Fixed2(Num(Rat(0))), text)

NoDataLine == TextLine("No data available to analyze dips/rises.")
NoMovementsLine == TextLine("No significant year-over-year movements detected.")
Disclaimer == TextLine("_Explanations are heuristic; verify with authoritative sources._")

\* the line of one dip or rise of a country
MovementLine(direction, country, e, indicator_key) ==
    LET reasons == augment_reason(indicator_key, e.year)
        fallback == IF direction = "dip" THEN "Local factors or data volatility"
                    ELSE "Potential recovery, structural growth, or base effects"
    IN  Line(direction, country, e.year, Fixed2(e.change_pct), Fixed2(Num(Rat(e.value))),
             IF reasons # <<>> THEN Join(reasons) ELSE fallback)

\* the lines of the entries of one list of a country
EntryLines(direction, country, entries, indicator_key) ==
    [i \in 1..Len(entries) |-> MovementLine(direction, country, entries[i], indicator_key)]

\* the loop with the rises of a country before its dips
RECURSIVE MovementLinesRisesFirst(_, _)
MovementLinesRisesFirst(extremes, indicator_key) ==
    IF extremes = <<>> THEN <<>>
    ELSE EntryLines("rise", Head(extremes).country, Head(extremes).rises, indicator_key)
         \o EntryLines("dip", Head(extremes).country, Head(extremes).dips, indicator_key)
         \o MovementLinesRisesFirst(Tail(extremes), indicator_key)

\* generate_explanations' loop over extremes.items(): per country the dips, then
\* the rises
RECURSIVE MovementLines(_, _)
MovementLines(extremes, indicator_key) ==
    IF extremes = <<>> THEN <<>>
    ELSE EntryLines("dip", Head(extremes).country, Head(extremes).dips, indicator_key)
         \o EntryLines("rise", Head(extremes).country, Head(extremes).rises, indicator_key)
         \o MovementLines(Tail(extremes), indicator_key)

\* a deduplication that keeps every line
KeepAll(lines, seen) == lines

\* the deduplication loop: a line is kept unless it was seen before
RECURSIVE Deduped(_, _)
Deduped(lines, seen) ==
    IF lines = <<>> THEN <<>>
    ELSE IF Head(lines) \in seen THEN Deduped(Tail(lines), seen)
    ELSE <<Head(lines)>> \o Deduped(Tail(lines), seen \cup {Head(lines)})

\* generate_explanations that ends every list it returns with the disclaimer
generate_explanationsAlwaysDisclaimer(p, indicator_key, top_n) ==
    LET extremes == IF p = <<>> THEN <<>> ELSE detect_extremes(p, indicator_key, top_n)
        lines == MovementLines(extremes, indicator_key)
    IN  [extremes |-> extremes, lines |-> lines,
         result |-> (IF p = <<>> THEN <<NoDataLine>>
                     ELSE IF lines = <<>> THEN <<NoMovementsLine>>
                     ELSE Deduped(lines, {})) \o <<Disclaimer>>]

\* generate_explanations(df, indicator_key, top_n): the mapping detect_extremes
\* returned, the lines before the deduplication, and the list returned
generate_explanations(p, indicator_key, top_n) ==
    IF p = <<>> THEN [extremes |-> <<>>, lines |-> <<>>, result |-> <<NoDataLine>>]
    ELSE LET extremes == detect_extremes(p, indicator_key, top_n)
             lines == MovementLines(extremes, indicator_key)
         IN  [extremes |-> extremes, lines |-> lines,
              result |-> IF lines = <<>> THEN <<NoMovementsLine>>
                         ELSE Deduped(lines, {}) \o <<Disclaimer>>]

\* a call of generate_explanations: its position, its arguments, the exception it
\* raised ("" for none), detect_extremes' mapping, the lines before the
\* deduplication and the list returned
Explanation(pc, p, key, n, raised, extremes, lines, result) ==
    [pc |-> pc, panel |-> p, indicator_key |-> key, top_n |-> n, raised |-> raised,
     extremes |-> extremes, lines |-> lines, result |-> result]

\* every row a panel given to generate_explanations may hold
ExplainRows == {Row(c, y, v) : c \in Countries, y \in Years, v \in Values}

\* the panels given to generate_explanations: rows in (country, year) order, a
\* (country, year) pair possibly repeated
ExplainPanels ==
    {p \in UNION {[1..k -> ExplainRows] : k \in 0..MaxExplainRows} :
        \A i \in 1..(Len(p) - 1) : ~RowBefore(p[i + 1], p[i])}

\* the indicator keys given to generate_explanations
ExplainKeys == {"gdp", "population_total"}

InitExplain ==
    /\ models = Empty
    /\ metrics = Empty
    /\ df = <<>>
    /\ data_cache = <<>>
    /\ st_cache = <<>>
    /\ last = Call("init", "", <<>>, 0, "", <<>>, {})
    /\ spc = [s \in Sessions |-> "start"]
    /\ sdf = [s \in Sessions |-> <<>>]
    /\ sout = [s \in Sessions |-> NothingShown]
    /\ ex \in {Explanation("call", p, key, n, "", <<>>, <<>>, <<>>) :
                 p \in ExplainPanels, key \in ExplainKeys, n \in TopNs}

GenerateExplanations ==
    /\ ex.pc = "call"
    /\ LET g == generate_explanations(ex.panel, ex.indicator_key, ex.top_n)
       IN  ex' = [ex EXCEPT !.pc = "done", !.extremes = g.extremes,
                            !.lines = g.lines, !.result = g.result]
    /\ UNCHANGED <<models, metrics, df, last, spc, sdf, sout, data_cache, st_cache>>

NextExplain == GenerateExplanations

SpecExplain == InitExplain /\ [][NextExplain]_vars

-----------------------------------------------------------------------------
(* _augment_reason on its own, for the indicator keys and years a caller   *)
(* may give.                                                               *)

\* indicator keys of WorldBankAPI.INDICATORS
AugmentKeys == {"gdp", "gdp_growth", "inflation", "unemployment", "energy_total",
                "health_expenditure_gdp", "population_total"}

\* the years of fetch_indicator's default range, and the one after
AugmentYears == 2000..2024

\* a call of _augment_reason
Annotation(pc, key, year, result) ==
    [pc |-> pc, indicator_key |-> key, year |-> year, result |-> result]

InitAugment ==
    /\ models = Empty
    /\ metrics = Empty
    /\ df = <<>>
    /\ data_cache = <<>>
    /\ st_cache = <<>>
    /\ last = Call("init", "", <<>>, 0, "", <<>>, {})
    /\ spc = [s \in Sessions |-> "start"]
    /\ sdf = [s \in Sessions |-> <<>>]
    /\ sout = [s \in Sessions |-> NothingShown]
    /\ ex \in {Annotation("call", key, year, <<>>) :
                 key \in AugmentKeys, year \in AugmentYears}

AugmentReason ==
    /\ ex.pc = "call"
    /\ ex' = [ex EXCEPT !.pc = "done",
                        !.result = augment_reason(ex.indicator_key, ex.year)]
    /\ UNCHANGED <<models, metrics, df, last, spc, sdf, sout, data_cache, st_cache>>

NextAugment == AugmentReason

SpecAugment == InitAugment /\ [][NextAugment]_vars

-----------------------------------------------------------------------------
(* detect_extremes on panels whose rows come in any order, at most one per *)
(* (country, year).                                                        *)

\* every row a panel given to detect_extremes may hold
DetectRows == {Row(c, y, v) : c \in Countries, y \in Years, v \in ChangeValues}

ShuffledPanels ==
    {p \in UNION {[1..k -> DetectRows] : k \in 0..MaxShuffledRows} :
        \A i, j \in 1..Len(p) :
            (p[i].country = p[j].country /\ p[i].year = p[j].year) => i = j}

InitDetectShuffled ==
    /\ models = Empty
    /\ metrics = Empty
    /\ df = <<>>
    /\ data_cache = <<>>
    /\ st_cache = <<>>
    /\ last = Call("init", "", <<>>, 0, "", <<>>, {})
    /\ spc = [s \in Sessions |-> "start"]
    /\ sdf = [s \in Sessions |-> <<>>]
    /\ sout = [s \in Sessions |-> NothingShown]
    /\ ex \in {Detection("call", p, "gdp", n, "", <<>>) : p \in ShuffledPanels, n \in TopNs}

SpecDetectShuffled == InitDetectShuffled /\ [][NextDetect]_vars

-----------------------------------------------------------------------------
(* src/api/world_bank.py: fetch_indicator.  The API's answer for a country *)
(* is a failure of the request, a body without records, or the records of  *)
(* the years asked for, latest first, each with a value or null.  A value  *)
(* of a record is <<v>>, null is <<>>.                                     *)

\* the ISO codes asked for, with the country name the API gives for each
CodeSeq == <<"BRA", "IND">>
CountryName == "BRA" :> "Brazil" @@ "IND" :> "India"

\* the lists of country codes given to fetch_indicator
CodeLists == {<<>>, <<"BRA">>, <<"IND">>, <<"BRA", "IND">>, <<"IND", "BRA">>}

\* the values of the records: null, or a number
EntryValues == {<<>>} \cup {<<v>> : v \in Values}

\* the records of a country: one per year, latest first
EntriesOf(code, f) ==
    [i \in 1..Len(YearSeq) |->
        [country |-> CountryName[code], year |-> YearSeq[Len(YearSeq) + 1 - i],
         value |-> f[i]]]

\* the answers of the API for a country
Responses(code) ==
    {[kind |-> "error", entries |-> <<>>], [kind |-> "none", entries |-> <<>>]}
    \cup {[kind |-> "data", entries |-> EntriesOf(code, f)] :
             f \in [1..Len(YearSeq) -> EntryValues]}

\* the record as a row of the frame
RecordOf(entry) == Row(entry.country, entry.year, Head(entry.value))

\* _fetch_country_indicator that reads null as 0.0
fetch_country_indicatorNullAsZero(response) ==
    [i \in 1..Len(response.entries) |->
        Row(response.entries[i].country, response.entries[i].year,
            IF response.entries[i].value = <<>> THEN 0
            ELSE Head(response.entries[i].value))]

\* _fetch_country_indicator for a request that did not fail: no record for a body
\* without records, and the records whose value is not null otherwise
fetch_country_indicator(response) ==
    LET kept == SelectSeq(response.entries, LAMBDA entry : entry.value # <<>>)
    IN  [i \in 1..Len(kept) |-> RecordOf(kept[i])]

\* the loop with "break" for "continue": the countries after a failed request are
\* not fetched
RECURSIVE AllDataUntilFailure(_, _)
AllDataUntilFailure(country_codes, responses) ==
    IF country_codes = <<>> THEN <<>>
    ELSE IF responses[Head(country_codes)].kind = "error" THEN <<>>
    ELSE fetch_country_indicator(responses[Head(country_codes)])
         \o AllDataUntilFailure(Tail(country_codes), responses)

\* fetch_indicator's loop: all_data, the country of a failed request skipped
RECURSIVE AllData(_, _)
AllData(country_codes, responses) ==
    IF country_codes = <<>> THEN <<>>
    ELSE (IF responses[Head(country_codes)].kind = "error" THEN <<>>
          ELSE fetch_country_indicator(responses[Head(country_codes)]))
         \o AllData(Tail(country_codes), responses)

\* fetch_indicator(indicator_code, country_codes, start_year, end_year)
fetch_indicator(country_codes, responses) ==
    SortByCountryYear(AllData(country_codes, responses))

\* the columns of the frame fetch_indicator returns, empty or not
Columns == <<"country", "country_code", "year", "value">>

\* a call of fetch_indicator: its position, the codes asked for, the API's answers,
\* the exception it raised ("" for none) and the columns of the frame returned
Fetch(op, country_codes, responses, raised, columns) ==
    [op |-> op, country_codes |-> country_codes, responses |-> responses,
     raised |-> raised, columns |-> columns]

InitFetch ==
    /\ models = Empty
    /\ metrics = Empty
    /\ df = <<>>
    /\ data_cache = <<>>
    /\ st_cache = <<>>
    /\ last \in {Fetch("request", codes, responses, "", <<>>) :
                   codes \in CodeLists,
                   responses \in [Range(CodeSeq) -> UNION {Responses(code) : code \in Range(CodeSeq)}]}
    /\ \A code \in DOMAIN last.responses : last.responses[code] \in Responses(code)
    /\ spc = [s \in Sessions |-> "start"]
    /\ sdf = [s \in Sessions |-> <<>>]
    /\ sout = [s \in Sessions |-> NothingShown]
    /\ ex = NoCall

FetchIndicator ==
    /\ last.op = "request"
    /\ df' = fetch_indicator(last.country_codes, last.responses)
    /\ last' = [last EXCEPT !.op = "fetch_indicator", !.raised = "", !.columns = Columns]
    /\ UNCHANGED <<models, metrics, spc, sdf, sout, ex, data_cache, st_cache>>

NextFetch == FetchIndicator

SpecFetch == InitFetch /\ [][NextFetch]_vars

-----------------------------------------------------------------------------
(* app.py: fetch_data.  The function is wrapped by st.cache_data, which    *)
(* keeps the value returned for each tuple of arguments for 24 hours and   *)
(* returns it without running the function; the function itself reads and  *)
(* writes the on-disk cache of utils.helpers, which is a mapping from      *)
(* cache keys to panels.                                                   *)

\* the arguments of a call of fetch_data
Request(indicator_key, countries, start_year, end_year) ==
    [indicator_key |-> indicator_key, countries |-> countries,
     start_year |-> start_year, end_year |-> end_year]

\* the lists of country codes the sidebar gives
CountryCodeLists == {<<"BRA">>, <<"BRA", "IND">>}

\* the calls of fetch_data made
FetchRequests ==
    {Request(key, countries, YearSeq[1], YearSeq[Len(YearSeq)]) :
        key \in IndicatorKeys, countries \in CountryCodeLists}

\* what wb_api.fetch_by_indicator_key may return for a request: nothing, or one
\* of two panels
ApiAnswers == {<<>>} \cup {<<Row(CountrySeq[1], YearSeq[1], v)>> : v \in Values}

\* '_'.join(countries)
RECURSIVE JoinCodes(_)
JoinCodes(countries) ==
    IF Len(countries) = 0 THEN ""
    ELSE IF Len(countries) = 1 THEN countries[1]
    ELSE countries[1] \o "_" \o JoinCodes(Tail(countries))

\* cache_key = f"{indicator_key}_{'_'.join(countries)}_{start_year}_{end_year}"
cache_key(request) ==
    request.indicator_key \o "_" \o JoinCodes(request.countries) \o "_"
    \o ToString(request.start_year) \o "_" \o ToString(request.end_year)

\* load_data_cache(cache_key): the entry, or None (<<>>) when there is none
load_data_cache(cache, key) == IF key \in DOMAIN cache THEN <<cache[key]>> ELSE <<>>

\* save_data_cache(data, cache_key)
save_data_cache(cache, data, key) ==
    [k \in DOMAIN cache \cup {key} |-> IF k = key THEN data ELSE cache[k]]

\* the body of fetch_data for a request the API answers with answer: what is
\* returned, whether the API was called, and the on-disk cache afterwards
fetch_data(cache, request, answer) ==
    LET cached_data == load_data_cache(cache, cache_key(request))
    IN  IF cached_data # <<>>
        THEN [result |-> Head(cached_data), api_called |-> FALSE, cache |-> cache]
        ELSE [result |-> answer, api_called |-> TRUE,
              cache |-> IF answer # <<>>
                        THEN save_data_cache(cache, answer, cache_key(request))
                        ELSE cache]

\* a call of fetch_data: its arguments, what the API holds for them, whether the
\* API was called, what was returned, and the parity of the number of calls
FetchCall(op, request, answer, api_called, result, parity) ==
    [op |-> op, request |-> request, answer |-> answer, api_called |-> api_called,
     result |-> result, parity |-> parity]

InitCache ==
    /\ models = Empty
    /\ metrics = Empty
    /\ df = <<>>
    /\ data_cache = <<>>
    /\ st_cache = <<>>
    /\ last = FetchCall("init", Request("", <<>>, 0, 0), <<>>, FALSE, <<>>, 0)
    /\ spc = [s \in Sessions |-> "start"]
    /\ sdf = [s \in Sessions |-> <<>>]
    /\ sout = [s \in Sessions |-> NothingShown]
    /\ ex = NoCall

\* df = fetch_data(indicator_key, selected_country_codes, start_year, end_year)
FetchData(request, answer) ==
    /\ IF request \in DOMAIN st_cache
       THEN /\ df' = st_cache[request]
            /\ last' = FetchCall("fetch_data", request, answer, FALSE, st_cache[request],
                                 1 - last.parity)
            /\ UNCHANGED <<data_cache, st_cache>>
       ELSE LET call == fetch_data(data_cache, request, answer)
            IN  /\ df' = call.result
                /\ data_cache' = call.cache
                /\ st_cache' = [r \in DOMAIN st_cache \cup {request} |->
                                  IF r = request THEN call.result ELSE st_cache[r]]
                /\ last' = FetchCall("fetch_data", request, answer, call.api_called,
                                     call.result, 1 - last.parity)
    /\ UNCHANGED <<models, metrics, spc, sdf, sout, ex>>

\* ttl=86400: an entry of st.cache_data is dropped when it is a day old
CacheExpires(request) ==
    /\ request \in DOMAIN st_cache
    /\ st_cache' = [r \in DOMAIN st_cache \ {request} |-> st_cache[r]]
    /\ UNCHANGED <<models, metrics, df, last, spc, sdf, sout, ex, data_cache>>

NextCache ==
    \/ \E request \in FetchRequests, answer \in ApiAnswers : FetchData(request, answer)
    \/ \E request \in FetchRequests : CacheExpires(request)

SpecCache == InitCache /\ [][NextCache]_vars

-----------------------------------------------------------------------------
(* The properties of the predictor. *)

\* how many observations panel p holds for country c
Observations(p, c) == Cardinality({i \in 1..Len(p) : p[i].country = c})

\* the last year panel p holds for country c
LastYear(p, c) == CHOOSE y \in Years :
    /\ \E i \in 1..Len(p) : p[i].country = c /\ p[i].year = y
    /\ \A i \in 1..Len(p) : p[i].country = c => p[i].year <= y

\* the places of the rows of country c in rows
RowsFor(rows, c) == {i \in 1..Len(rows) : rows[i].country = c}

\* C1: after train(panel), whatever was registered before, the registry holds a
\* model for exactly the countries with at least 3 observations in panel, and
\* train raised nothing.
C1_TrainRegistersExactly ==
    last.op = "train" =>
        /\ last.raised = ""
        /\ DOMAIN models = {c \in Countries : Observations(df, c) >= 3}

\* a train that fits one country, skips a country with exactly 2 observations and
\* drops the model of a country registered before
C1_Witness ==
    /\ last.op = "train"
    /\ \E c \in Countries : Observations(df, c) = 2 /\ c \notin DOMAIN models
    /\ \E c \in Countries : c \in DOMAIN models
    /\ \E c \in last.before : c \notin DOMAIN models

\* C2: predict for a country without a model raises ValueError, returns no rows
\* and leaves models and metrics as they were.
C2_PredictUnknownRaises ==
    [][(last'.op = "predict" /\ last' # last /\ last'.country \notin DOMAIN models)
          => /\ last'.raised = "ValueError"
             /\ last'.result = <<>>
             /\ models' = models
             /\ metrics' = metrics]_vars

\* predict was refused for a country while another country has a model
C2_Witness ==
    /\ last.op = "predict"
    /\ last.raised = "ValueError"
    /\ last.country \notin DOMAIN models
    /\ DOMAIN models # {}

\* C3: predict_next_year(panel) raises nothing and returns exactly one row for every
\* country of panel that has a model, at that country's last year in panel plus one,
\* and no row for any other country.
C3_NextYearOneRowPerModel ==
    last.op = "predict_next_year" =>
        /\ last.raised = ""
        /\ \A c \in Countries \cup {Unknown} :
              IF c \in DOMAIN models /\ Observations(df, c) > 0
              THEN /\ Cardinality(RowsFor(last.result, c)) = 1
                   /\ \A i \in RowsFor(last.result, c) :
                         last.result[i].year = LastYear(df, c) + 1
              ELSE RowsFor(last.result, c) = {}
        /\ \A i \in 1..Len(last.result) : last.result[i].country \in Countries

\* a prediction for one country at its own last year plus one, earlier than the
\* panel's, and none for another country of the panel that has no model
C3_Witness ==
    /\ last.op = "predict_next_year"
    /\ \E i \in 1..Len(last.result) : last.result[i].year < MaxYear(df) + 1
    /\ \E c \in Countries : Observations(df, c) > 0 /\ c \notin DOMAIN models

\* what a predictor that never ran before returns for the call recorded in last
FreshResult ==
    CASE last.op = "train" -> TrainMetrics(df)
      [] last.op = "predict_next_year" ->
            NextYearRows(TrainModels(df), df, Unique(df))
      [] last.op = "predict_with_confidence" ->
            ConfidenceRows(TrainModels(df), TrainMetrics(df), Unique(df),
                           last.years, last.confidence)
      [] OTHER -> last.result

\* C4: train, predict_next_year and predict_with_confidence return what
\* a fresh predictor returns for the same panel and parameters, whatever was done
\* on the predictor before.
C4_PureOfPanel ==
    last.op \in {"train", "predict_next_year", "predict_with_confidence"} =>
        last.result = FreshResult

\* C6: after train(p1) then train(p2), models and metrics are those train(p2)
\* gives on a fresh predictor: nothing of p1 is kept or merged.
C6_RetrainReplaces ==
    last.op = "train" =>
        /\ models = TrainModels(df)
        /\ metrics = TrainMetrics(df)
        /\ last.result = TrainMetrics(df)

\* a second train, on a panel that holds a country fitted before with a value
\* missing, fits that country again
C6_Witness ==
    /\ last.op = "train"
    /\ \E c \in last.before : c \in DOMAIN models
    /\ Len(df) < Len(KeySeq)

\* C7: every row of predict_with_confidence has lower_bound = value - 2*MAE and
\* upper_bound = value + 2*MAE of its country's model, so lower_bound <= value <=
\* upper_bound, and the result is the same for every confidence.
C7_BoundsTwiceMae ==
    last.op = "predict_with_confidence" =>
        /\ \A i \in 1..Len(last.result) :
              LET r == last.result[i]
                  twice == RMul(Rat(2), metrics[r.country].mae)
              IN  /\ r.lower_bound = RSub(r.value, twice)
                  /\ r.upper_bound = RAdd(r.value, twice)
                  /\ RLeq(r.lower_bound, r.value)
                  /\ RLeq(r.value, r.upper_bound)
        /\ \A confidence \in Confidences :
              last.result = ConfidenceRows(models, metrics, Unique(df),
                                           last.years, confidence)

\* a predicted row whose bounds differ from its value
C7_Witness ==
    /\ last.op = "predict_with_confidence"
    /\ \E i \in 1..Len(last.result) :
          RLess(last.result[i].lower_bound, last.result[i].value)

-----------------------------------------------------------------------------
(* The properties of the sessions. *)

\* C5: a session's predictions and model summary are those of its own panel: what
\* it is shown after its own train is what a predictor of its own, trained on its
\* panel, returns, whatever the other sessions do meanwhile.
C5_SessionsIsolated ==
    \A s \in Sessions :
        /\ spc[s] \in {"predicted", "done"} =>
              sout[s].predictions =
                  NextYearRows(TrainModels(sdf[s]), sdf[s], Unique(sdf[s]))
        /\ (spc[s] = "done" /\ sout[s].selected # "") =>
              sout[s].summary = ModelSummary(TrainMetrics(sdf[s]), sout[s].selected)

-----------------------------------------------------------------------------
(* The properties of detect_extremes. *)

\* the change entries of country c in panel p: one for each observation of c that
\* has an earlier one, from the latest earlier one, unless the change is 0/0
ChangeEntries(p, c) ==
    {[year |-> p[i].year, change_pct |-> PctChange(p[j].value, p[i].value),
      value |-> p[i].value] :
        <<i, j>> \in {<<i, j>> \in (1..Len(p)) \X (1..Len(p)) :
            /\ p[i].country = c /\ p[j].country = c /\ p[j].year < p[i].year
            /\ \A k \in 1..Len(p) :
                  (p[k].country = c /\ p[k].year < p[i].year) => p[k].year <= p[j].year
            /\ ~(p[j].value = 0 /\ p[i].value = 0)}}

\* the countries detect_extremes returned an item for
DetectedCountries == {ex.result[i].country : i \in 1..Len(ex.result)}

\* C8: for top_n >= 1, detect_extremes raises nothing and returns at most top_n
\* rises and at most top_n dips per country; a country with fewer than top_n
\* change entries gets exactly its entries in each list.
C8_AtMostTopN ==
    (ex.pc = "done" /\ ex.top_n >= 1) =>
        /\ ex.raised = ""
        /\ \A i \in 1..Len(ex.result) :
              LET e == ex.result[i]
                  all == ChangeEntries(ex.panel, e.country)
              IN  /\ Len(e.rises) <= ex.top_n
                  /\ Len(e.dips) <= ex.top_n
                  /\ Cardinality(all) < ex.top_n =>
                        /\ Len(e.rises) = Cardinality(all)
                        /\ Range(e.rises) = all
                        /\ Len(e.dips) = Cardinality(all)
                        /\ Range(e.dips) = all

\* a country with 2 change entries, fewer than top_n, gets both as rises and as
\* dips, beside a country with a single change entry
C8_Witness ==
    /\ ex.pc = "done"
    /\ ex.top_n >= 1
    /\ \E i \in 1..Len(ex.result) :
          /\ Cardinality(ChangeEntries(ex.panel, ex.result[i].country)) = 2
          /\ ex.top_n > 2
          /\ Len(ex.result[i].rises) = 2
          /\ Len(ex.result[i].dips) = 2
    /\ \E i \in 1..Len(ex.result) :
          Cardinality(ChangeEntries(ex.panel, ex.result[i].country)) = 1

\* C9: detect_extremes called with top_n <= 0 is refused with InvalidParameter and
\* returns no mapping.
C9_RejectsNonPositiveTopN ==
    (ex.pc = "done" /\ ex.top_n <= 0) =>
        /\ ex.raised = "InvalidParameter"
        /\ ex.result = <<>>

\* C10: a country has an item in what detect_extremes returns if and only if it
\* has a change entry, and no item has an empty rises or an empty dips list.
C10_KeysIffChangeEntry ==
    ex.pc = "done" =>
        /\ \A c \in Countries :
              c \in DetectedCountries <=> ChangeEntries(ex.panel, c) # {}
        /\ \A i \in 1..Len(ex.result) :
              ex.result[i].rises # <<>> /\ ex.result[i].dips # <<>>

\* the observations of country c in panel p
ObservationsOf(p, c) == {p[i] : i \in {j \in 1..Len(p) : p[j].country = c}}

\* the observation of country c just before year y: the one of the latest
\* observed year before y
Preceding(p, c, y) ==
    CHOOSE r \in ObservationsOf(p, c) :
        /\ r.year < y
        /\ \A q \in ObservationsOf(p, c) : q.year < y => q.year <= r.year

\* the entries detect_extremes returned for the item e of a country
RankedEntries(e) == Range(e.rises) \cup Range(e.dips)

\* C11: every rise and every dip of a country is an observation of that country
\* that has an earlier one, and its change_pct is (value - previous) / previous *
\* 100 where previous is the value of the country's observation of the latest
\* earlier observed year (in float arithmetic an infinity of the sign of value
\* when previous is 0); the country's first observation is never ranked.
C11_ChangeFromPrecedingObservation ==
    ex.pc = "done" =>
        \A i \in 1..Len(ex.result) : \A e \in RankedEntries(ex.result[i]) :
            LET c == ex.result[i].country
                obs == {r \in ObservationsOf(ex.panel, c) : r.year = e.year}
            IN  /\ obs # {}
                /\ \A r \in obs :
                      /\ e.value = r.value
                      /\ \E q \in ObservationsOf(ex.panel, c) : q.year < r.year
                      /\ LET previous == Preceding(ex.panel, c, r.year).value
                         IN  IF previous # 0
                             THEN e.change_pct =
                                      Num(Frac((r.value - previous) * 100, previous))
                             ELSE /\ r.value # 0
                                  /\ e.change_pct =
                                        (IF r.value > 0 THEN PlusInf ELSE MinusInf)

\* a ranked change across a missing year, taken from the observation two years
\* before, in a panel where another country's observations follow
C11_Witness ==
    /\ ex.pc = "done"
    /\ \E i \in 1..Len(ex.result) : \E e \in RankedEntries(ex.result[i]) :
          LET c == ex.result[i].country
          IN  /\ Preceding(ex.panel, c, e.year).year = e.year - 2
              /\ Preceding(ex.panel, c, e.year).value # e.value
              /\ e.change_pct.kind = "num"
    /\ Len(ex.result) = 2

\* x is ranked before y among the rises: a larger change, or an equal one of an
\* earlier year
RisesBefore(x, y) ==
    \/ FloatLess(y.change_pct, x.change_pct)
    \/ x.change_pct = y.change_pct /\ x.year < y.year

\* x is ranked before y among the dips: a smaller change, or an equal one of an
\* earlier year
DipsBefore(x, y) ==
    \/ FloatLess(x.change_pct, y.change_pct)
    \/ x.change_pct = y.change_pct /\ x.year < y.year

\* C12: for top_n >= 1, rises are the min(top_n, k) change entries of the country
\* with the largest change_pct, largest first, and dips those with the smallest,
\* smallest first; of two entries with an equal change_pct the one of the earlier
\* year is selected and listed first, and nothing is raised.
C12_RankedEarlierYearFirst ==
    (ex.pc = "done" /\ ex.top_n >= 1) =>
        /\ ex.raised = ""
        /\ \A i \in 1..Len(ex.result) :
              LET e == ex.result[i]
                  all == ChangeEntries(ex.panel, e.country)
                  k == IF ex.top_n < Cardinality(all) THEN ex.top_n ELSE Cardinality(all)
              IN  /\ Len(e.rises) = k /\ Len(e.dips) = k
                  /\ Range(e.rises) \subseteq all /\ Range(e.dips) \subseteq all
                  /\ \A a, b \in 1..k : a < b =>
                        /\ RisesBefore(e.rises[a], e.rises[b])
                        /\ DipsBefore(e.dips[a], e.dips[b])
                  /\ \A x \in all \ Range(e.rises) : RisesBefore(e.rises[k], x)
                  /\ \A x \in all \ Range(e.dips) : DipsBefore(e.dips[k], x)

\* of two equal changes of a country the earlier one alone is kept, as the rise
\* and as the dip
C12_Witness ==
    /\ ex.pc = "done"
    /\ ex.top_n = 1
    /\ \E i \in 1..Len(ex.result) :
          LET all == ChangeEntries(ex.panel, ex.result[i].country)
          IN  /\ Cardinality(all) = 2
              /\ \A x, y \in all : x.change_pct = y.change_pct
              /\ \A x \in all : ex.result[i].rises[1].year <= x.year
              /\ \A x \in all : ex.result[i].dips[1].year <= x.year

-----------------------------------------------------------------------------
(* The properties of generate_explanations and _augment_reason. *)

\* how many lines the k-th item of detect_extremes' mapping gives
MovementsOf(k) == Len(ex.extremes[k].dips) + Len(ex.extremes[k].rises)

\* how many lines the items before the k-th give
LinesBefore(k) == SumSeq([m \in 1..(k - 1) |-> MovementsOf(m)])

\* line l is the line of entry e of country c in direction d
IsLineOf(l, d, c, e) ==
    /\ l.direction = d /\ l.country = c /\ l.year = e.year
    /\ l.change = Fixed2(e.change_pct)

\* C13: before the deduplication there is one line per rise and per dip of the
\* mapping detect_extremes returned; the lines of a country are together, the
\* countries in the mapping's order, and within a country its dips come first, in
\* the order of the dips list, then its rises, in the order of the rises list.
C13_DipsBeforeRisesPerCountry ==
    ex.pc = "done" =>
        /\ Len(ex.lines) = LinesBefore(Len(ex.extremes) + 1)
        /\ \A k \in 1..Len(ex.extremes) :
              LET e == ex.extremes[k]
              IN  /\ \A d \in 1..Len(e.dips) :
                        IsLineOf(ex.lines[LinesBefore(k) + d], "dip", e.country, e.dips[d])
                  /\ \A r \in 1..Len(e.rises) :
                        IsLineOf(ex.lines[LinesBefore(k) + Len(e.dips) + r], "rise",
                                 e.country, e.rises[r])

\* two countries with a movement each: the dip and the rise of the first, then the
\* dip and the rise of the second
C13_Witness ==
    /\ ex.pc = "done"
    /\ Len(ex.extremes) = 2
    /\ Len(ex.lines) = 4
    /\ ex.lines[1].direction = "dip" /\ ex.lines[2].direction = "rise"
    /\ ex.lines[2].country = ex.extremes[1].country
    /\ ex.lines[3].direction = "dip" /\ ex.lines[4].direction = "rise"
    /\ ex.lines[3].country = ex.extremes[2].country
    /\ ex.lines[3].country # ex.lines[2].country

\* the reasons of (indicator_key, year) as the rules give them
MatchingRules(indicator_key, year) ==
    {k \in 1..Len(INDICATOR_CONTEXT_RULES) :
        /\ \E i \in 1..Len(indicator_key), j \in 1..Len(indicator_key) :
              SubSeq(indicator_key, i, j) = INDICATOR_CONTEXT_RULES[k].fragment
        /\ year \in DOMAIN INDICATOR_CONTEXT_RULES[k].mapping}

\* C14: the reasons of (indicator_key, year) are the global event of year, if
\* there is one, then the description for year of every rule whose keyword occurs
\* in indicator_key and whose mapping holds year, in the order of the rule list and
\* of no other rule; ("gdp", 2020) has two reasons, the global one first.
C14_ReasonsGlobalThenRules ==
    ex.pc = "done" =>
        LET g == IF ex.year \in DOMAIN GLOBAL_EVENTS THEN 1 ELSE 0
            rules == MatchingRules(ex.indicator_key, ex.year)
        IN  /\ Len(ex.result) = g + Cardinality(rules)
            /\ g = 1 => ex.result[1] = GLOBAL_EVENTS[ex.year]
            /\ \A k \in rules :
                  ex.result[g + Cardinality({m \in rules : m <= k})] =
                      INDICATOR_CONTEXT_RULES[k].mapping[ex.year]
            /\ (ex.indicator_key = "gdp" /\ ex.year = 2020) =>
                  ex.result = <<"COVID-19 pandemic shock: mobility restrictions, demand collapse, health system strain",
                                "Historic contraction from pandemic restrictions">>

\* a key that holds the keyword gdp among other words, in 2020: the global reason,
\* then the reason of the gdp rule
C14_Witness ==
    /\ ex.pc = "done"
    /\ ex.indicator_key = "gdp_growth"
    /\ ex.year = 2020
    /\ Len(ex.result) = 2
    /\ ex.result[2] = "Historic contraction from pandemic restrictions"

\* C15: generate_explanations raises nothing and never returns an empty list: for
\* an empty panel the list is the "no data" line alone; for a panel that is not
\* empty and gives no movement line it is the "no significant movements" line
\* alone; otherwise its last line is the disclaimer, which occurs once.
C15_EndsWithDisclaimerOrNotice ==
    ex.pc = "done" =>
        /\ ex.raised = ""
        /\ ex.result # <<>>
        /\ IF ex.panel = <<>> THEN ex.result = <<NoDataLine>>
           ELSE IF ex.lines = <<>> THEN ex.result = <<NoMovementsLine>>
           ELSE /\ ex.result[Len(ex.result)] = Disclaimer
                /\ Cardinality({i \in 1..Len(ex.result) : ex.result[i] = Disclaimer}) = 1
                /\ NoDataLine \notin Range(ex.result)
                /\ NoMovementsLine \notin Range(ex.result)

\* a panel of two countries with one observation each, asked for two movements:
\* no movement line, and the notice alone
C15_Witness ==
    /\ ex.pc = "done"
    /\ Len(ex.panel) = 2
    /\ ex.panel[1].country # ex.panel[2].country
    /\ ex.top_n = 2
    /\ ex.result = <<NoMovementsLine>>

\* the movement lines of the list returned: all of it but the disclaimer
ReturnedMovements == SubSeq(ex.result, 1, Len(ex.result) - 1)

\* the place where line l occurs first in lines
FirstPlace(l, lines) ==
    CHOOSE i \in 1..Len(lines) : lines[i] = l /\ \A j \in 1..(i - 1) : lines[j] # l

\* C16: the movement lines returned hold no line twice, hold every line produced,
\* and hold them in the order in which each occurs first among the lines
\* produced.
C16_DedupKeepsFirstSeenOrder ==
    (ex.pc = "done" /\ ex.lines # <<>>) =>
        /\ \A i, j \in 1..Len(ReturnedMovements) :
              ReturnedMovements[i] = ReturnedMovements[j] => i = j
        /\ Range(ReturnedMovements) = Range(ex.lines)
        /\ \A i, j \in 1..Len(ReturnedMovements) :
              i < j => FirstPlace(ReturnedMovements[i], ex.lines)
                          < FirstPlace(ReturnedMovements[j], ex.lines)

\* a repeated (country, year) gave the same line twice, and the second was removed
\* while two different lines were kept
C16_Witness ==
    /\ ex.pc = "done"
    /\ ex.lines # <<>>
    /\ Len(ReturnedMovements) < Len(ex.lines)
    /\ Len(ReturnedMovements) >= 2

-----------------------------------------------------------------------------
(* The property of detect_extremes on rows in any order. *)

\* the rows of panel p in (country, year) order
InKeyOrder(p) ==
    RowsOf([i \in {k \in 1..Len(KeySeq) :
                     \E j \in 1..Len(p) : <<p[j].country, p[j].year>> = KeySeq[k]} |->
               LET j == CHOOSE j \in 1..Len(p) : <<p[j].country, p[j].year>> = KeySeq[i]
               IN  p[j].value], 1)

\* C17: for a panel with at most one observation per (country, year), whatever the
\* order of its rows, detect_extremes returns the mapping it returns for the same
\* rows in (country, year) order: the same countries in the same order with the
\* same rises and dips in the same order.
C17_RowOrderIrrelevant ==
    ex.pc = "done" =>
        ex.result = detect_extremes(InKeyOrder(ex.panel), ex.indicator_key, ex.top_n)

\* a country's observations given latest first, after those of a country that
\* sorts later, with both changes of the first ranked
C17_Witness ==
    /\ ex.pc = "done"
    /\ Len(ex.panel) = 3
    /\ CountryRank(ex.panel[1].country) > CountryRank(ex.panel[2].country)
    /\ ex.panel[2].country = ex.panel[3].country
    /\ ex.panel[2].year > ex.panel[3].year
    /\ ex.top_n >= 1
    /\ Len(ex.result) = 1
    /\ ex.result[1].rises[1].change_pct.kind = "num"

-----------------------------------------------------------------------------
(* The properties of the fitted line and of its summary. *)

\* the unit a magnitude is shown in: trillions from 1e12 on, billions from 1e9
\* on, millions from 1e6 on, none below
UnitOf(magnitude) ==
    IF RLeq(Rat(1000), magnitude) THEN "T"
    ELSE IF RLeq(Rat(1), magnitude) THEN "B"
    ELSE IF RLeq(Frac(1, 1000), magnitude) THEN "M"
    ELSE ""

\* C18: in the summary of a country that has a model, the slope and the mean
\* absolute error are both shown in the unit of their magnitude: trillions from
\* 1e12 on, billions from 1e9 to below 1e12, millions from 1e6 to below 1e9, and
\* unscaled below 1e6.
C18_SlopeAndErrorSameUnits ==
    (last.op = "get_model_summary" /\ last.result.kind = "summary") =>
        /\ last.result.coef_str.unit = UnitOf(RAbs(metrics[last.country].coefficient))
        /\ last.result.mae_str.unit = UnitOf(RAbs(metrics[last.country].mae))

\* the observations of country c in panel p lie on one straight line
Collinear(p, c) ==
    \A q, r, t \in ObservationsOf(p, c) :
        (r.value - q.value) * (t.year - q.year) = (t.value - q.value) * (r.year - q.year)

\* C19: when the observations of a country train fits (at least 3) lie on one
\* straight line, the registered slope and intercept are that line's, the mean
\* absolute error is 0 and r2_score is 1; the slope for (2000, 100), (2001, 110),
\* (2002, 120) is 10.
C19_CollinearFitIsExact ==
    last.op = "train" =>
        /\ \A c \in DOMAIN models : Collinear(df, c) =>
              \A q, r \in ObservationsOf(df, c) : q.year < r.year =>
                  LET slope == Frac(r.value - q.value, r.year - q.year)
                  IN  /\ metrics[c].coefficient = slope
                      /\ models[c].coef = slope
                      /\ metrics[c].intercept = RSub(Rat(q.value), RMul(slope, Rat(q.year)))
                      /\ models[c].intercept = metrics[c].intercept
                      /\ metrics[c].mae = Rat(0)
                      /\ metrics[c].r2_score = Rat(1)
        /\ df = ExamplePanel =>
              /\ DOMAIN metrics = {"Brazil"}
              /\ metrics["Brazil"].coefficient = Rat(10)

\* the line of slope 10 fitted to (2000, 100), (2001, 110), (2002, 120), after a
\* line of another slope was registered
C19_Witness ==
    /\ last.op = "train"
    /\ df = ExamplePanel
    /\ last.before # {}
    /\ metrics["Brazil"].mae = Rat(0)

-----------------------------------------------------------------------------
(* The property of fetch_indicator. *)

\* the records with a value that the API gave for the codes asked for, as <<code,
\* place in the answer>>
ValuedRecords ==
    {<<code, k>> \in Range(last.country_codes) \X (1..Len(YearSeq)) :
        /\ last.responses[code].kind = "data"
        /\ last.responses[code].entries[k].value # <<>>}

\* C20: the panel fetch_indicator returns holds a row for every record with a
\* value of every country whose request did not fail, no row for a record whose
\* value is null and no other row, in ascending (country, year) order.
C20_NullValuesDropped ==
    last.op = "fetch_indicator" =>
        /\ Len(df) = Cardinality(ValuedRecords)
        /\ \A r \in ValuedRecords :
              LET entry == last.responses[r[1]].entries[r[2]]
              IN  \E i \in 1..Len(df) :
                      /\ df[i].country = entry.country
                      /\ df[i].year = entry.year
                      /\ <<df[i].value>> = entry.value
        /\ \A i \in 1..Len(df) :
              \E r \in ValuedRecords :
                  /\ df[i].country = last.responses[r[1]].entries[r[2]].country
                  /\ df[i].year = last.responses[r[1]].entries[r[2]].year
        /\ \A i, j \in 1..Len(df) : i < j =>
              \/ CountryRank(df[i].country) < CountryRank(df[j].country)
              \/ df[i].country = df[j].country /\ df[i].year < df[j].year

\* two countries asked for in reverse order of their names, both answered, a null
\* among the records of each: the rows with a value come back in (country, year)
\* order
C20_Witness ==
    /\ last.op = "fetch_indicator"
    /\ last.country_codes = <<"IND", "BRA">>
    /\ \A code \in {"BRA", "IND"} :
          /\ last.responses[code].kind = "data"
          /\ \E k \in 1..Len(YearSeq) : last.responses[code].entries[k].value = <<>>
    /\ Len(df) = 4
    /\ df[1].country = "Brazil"

-----------------------------------------------------------------------------
(* The property of fetch_data. *)

\* C21: in every call of fetch_data, if the on-disk cache holds an entry for the
\* call's key the entry is returned and the API is not called; otherwise the API
\* is called, its answer is returned, and the answer is stored under the key if
\* and only if it is not empty - so after an empty answer the next call with the
\* same key calls the API again.
C21_DiskHitElseFetchAndStore ==
    [][(last'.op = "fetch_data" /\ last'.parity # last.parity) =>
          LET key == cache_key(last'.request)
          IN  IF key \in DOMAIN data_cache
              THEN /\ ~last'.api_called
                   /\ last'.result = data_cache[key]
                   /\ data_cache' = data_cache
              ELSE /\ last'.api_called
                   /\ last'.result = last'.answer
                   /\ DOMAIN data_cache' =
                         DOMAIN data_cache \cup (IF last'.answer # <<>> THEN {key} ELSE {})
                   /\ \A k \in DOMAIN data_cache : data_cache'[k] = data_cache[k]
                   /\ last'.answer # <<>> => data_cache'[key] = last'.answer]_vars

-----------------------------------------------------------------------------
(* The property of fetch_indicator's failures. *)

\* how many records with a value the API gave for code
ValuedOf(code) ==
    Cardinality({k \in 1..Len(last.responses[code].entries) :
                    last.responses[code].entries[k].value # <<>>})

\* C22: fetch_indicator raises nothing; a country whose request failed has no row
\* in the panel returned, every other country asked for has all its rows there,
\* whether it was asked for before or after the failed one; when no country asked
\* for gives a row the panel is empty, with the columns country, country_code,
\* year, value.
C22_FailuresIsolated ==
    last.op = "fetch_indicator" =>
        /\ last.raised = ""
        /\ \A code \in Range(last.country_codes) :
              Cardinality(RowsFor(df, CountryName[code])) =
                  (IF last.responses[code].kind = "error" THEN 0 ELSE ValuedOf(code))
        /\ (\A code \in Range(last.country_codes) :
               last.responses[code].kind = "error" \/ ValuedOf(code) = 0) =>
              /\ df = <<>>
              /\ last.columns = <<"country", "country_code", "year", "value">>

\* the first country asked for failed, the second was fetched and its rows are the
\* panel
C22_Witness ==
    /\ last.op = "fetch_indicator"
    /\ Len(last.country_codes) = 2
    /\ last.responses[last.country_codes[1]].kind = "error"
    /\ last.responses[last.country_codes[2]].kind = "data"
    /\ Len(df) >= 2
    /\ \A i \in 1..Len(df) : df[i].country = CountryName[last.country_codes[2]]

-----------------------------------------------------------------------------
(* The properties of the registry. *)

\* C23: in every state of the predictor, whatever was called, the countries that
\* have a model are the countries that have metrics.
C23_ModelsAndMetricsSameCountries ==
    DOMAIN models = DOMAIN metrics

\* a registry filled by predict_next_year on an empty one, for one country of a
\* panel of two
C23_Witness ==
    /\ last.op = "predict_next_year"
    /\ last.before = {}
    /\ DOMAIN models # {}
    /\ \E c \in Countries : Observations(df, c) > 0 /\ c \notin DOMAIN metrics

\* C24: predict and get_model_summary leave models and metrics as they were;
\* predict_next_year and predict_with_confidence replace them by those trained on
\* the panel given when no model is registered at the call, and leave them as they
\* were otherwise, also when the panel given is not the one trained on.
C24_OnlyLazyTrainingWrites ==
    [][last' # last =>
          /\ last'.op \in {"predict", "get_model_summary"} =>
                models' = models /\ metrics' = metrics
          /\ last'.op \in {"predict_next_year", "predict_with_confidence"} =>
                IF DOMAIN models = {}
                THEN models' = TrainModels(df) /\ metrics' = TrainMetrics(df)
                ELSE models' = models /\ metrics' = metrics]_vars

\* predict_with_confidence on a panel that would train other models than the
\* registered ones
C24_Witness ==
    /\ last.op = "predict_with_confidence"
    /\ last.before # {}
    /\ DOMAIN models = last.before
    /\ DOMAIN TrainModels(df) # {}
    /\ models # TrainModels(df)

\* C26: predict(country, years) for a country that has a model raises nothing and
\* returns one row per year asked, in the order asked, each with value = slope *
\* year + intercept of the country's model, for years before and after the years
\* trained on alike.
C26_PredictExtrapolates ==
    (last.op = "predict" /\ last.country \in DOMAIN models) =>
        /\ last.raised = ""
        /\ Len(last.result) = Len(last.years)
        /\ \A i \in 1..Len(last.years) :
              /\ last.result[i].country = last.country
              /\ last.result[i].year = last.years[i]
              /\ last.result[i].value =
                    RAdd(RMul(metrics[last.country].coefficient, Rat(last.years[i])),
                         metrics[last.country].intercept)

\* a year after the years trained on, then a year before them, predicted in that
\* order on a line that is not flat
C26_Witness ==
    /\ last.op = "predict"
    /\ last.raised = ""
    /\ Len(last.result) = 2
    /\ last.result[1].year > MaxYear(df)
    /\ \A i \in 1..Len(df) : last.result[2].year < df[i].year
    /\ last.result[1].value # last.result[2].value

-----------------------------------------------------------------------------
(* The sign of the movements listed. *)

\* a change below 0, above 0
Below0(x) == x.kind = "-inf" \/ (x.kind = "num" /\ x.q.num < 0)
Above0(x) == x.kind = "inf" \/ (x.kind = "num" /\ x.q.num > 0)

\* C25: for top_n >= 1, a line of the output of generate_explanations labelled as
\* a decline is the line of a change below 0, and a line labelled as a rise is the
\* line of a change above 0.
C25_LabelMatchesSign ==
    (ex.pc = "done" /\ ex.top_n >= 1) =>
        \A i \in 1..Len(ex.result) : \A k \in 1..Len(ex.extremes) :
            LET e == ex.extremes[k]
            IN  /\ \A d \in 1..Len(e.dips) :
                      IsLineOf(ex.result[i], "dip", e.country, e.dips[d]) =>
                          Below0(e.dips[d].change_pct)
                /\ \A r \in 1..Len(e.rises) :
                      IsLineOf(ex.result[i], "rise", e.country, e.rises[r]) =>
                          Above0(e.rises[r].change_pct)

=============================================================================
